---- MODULE Spec2Model ----
(***************************************************************************)
(* A state-machine model of the PaperHtmlViewer component                  *)
(* (src/src/PaperCalcViewer.tsx): the layout state kept in localStorage,   *)
(* the loaded document handles, the .texhtml bundle codec (onSaveBundle /  *)
(* onOpenBundle), the divider drag handlers and the toolbar controls.      *)
(*                                                                         *)
(* Conventions.  A JavaScript null is the record Null.  An object URL is   *)
(* the record [blob |-> n], n numbering the calls of URL.createObjectURL;  *)
(* 0 numbers a blob URL of an earlier page session.  A File is             *)
(* [name |-> s, bytes |-> b].  A byte string is [raw |-> b] (opaque        *)
(* content, not JSON text) or [json |-> v] (the UTF-8 text of the JSON     *)
(* value v).  A zip archive is a function from entry names to byte         *)
(* strings; the bytes of a file that is no zip container are NotZip.       *)
(***************************************************************************)
EXTENDS Integers, Sequences, FiniteSets, TLC

VARIABLES
    pdfUrl, pdfFile,              \* PDF source and the File kept for bundling
    appUrl, appSrcDoc, appFile,   \* markup source
    view, orientation, splitPct, swap, theme, pdfZoom, showToolbar,
    isDragging, showKeyboardShortcuts, isFullscreen,
    fsElement,                    \* document.fullscreenElement is set
    fsQueue,                      \* fullscreen requests the host has not answered yet
    fsEvents,                     \* fullscreenchange events queued, not yet dispatched
    storage,                      \* localStorage: key -> raw text
    storageMode,                  \* "ok", "full" (setItem throws), "denied" (both throw)
    nextUrl,                      \* the number of the next object URL
    liveUrls,                     \* object URLs created and not revoked: number -> bytes
    listeners,                    \* document mousemove/mouseup listeners attached
    notice,                       \* the alert() the last handler showed, or Null
    thrown,                       \* the exception the last handler let escape, or Null
    download,                     \* the last archive handed to the browser as a download
    evt                           \* the last event delivered, with its input

docs   == <<pdfUrl, pdfFile, appUrl, appSrcDoc, appFile>>
layout == <<view, orientation, splitPct, swap, theme, pdfZoom, showToolbar>>
vars   == <<pdfUrl, pdfFile, appUrl, appSrcDoc, appFile,
            view, orientation, splitPct, swap, theme, pdfZoom, showToolbar,
            isDragging, showKeyboardShortcuts, isFullscreen, fsElement, fsQueue,
            fsEvents, storage, storageMode, nextUrl, liveUrls,
            listeners, notice, thrown, download, evt>>

Null == [null |-> TRUE]

(***************************************************************************)
(* Bounds of the model.                                                    *)
(***************************************************************************)
MaxUrls    == 5     \* object URLs created in one page session
ContainerW == 16    \* width of the .split-container box, in CSS pixels
ContainerH == 10    \* its height
RectLeft   == 1     \* its left edge in client coordinates
RectTop    == 1     \* its top edge
MaxFsQueue == 2     \* fullscreen requests in flight
MaxFsEvents == 2    \* fullscreenchange events queued

(***************************************************************************)
(* Constants of the program.                                               *)
(***************************************************************************)
SplitMin    == 15
SplitMax    == 85
ZoomMin     == 25
ZoomMax     == 200
ZoomStep    == 25
ZoomDefault == 100

(***************************************************************************)
(* Math.min / Math.max / Math.round on the rationals num/den, den > 0.     *)
(***************************************************************************)
Min(a, b) == IF a <= b THEN a ELSE b
Max(a, b) == IF a >= b THEN a ELSE b

\* Math.round(num/den): the nearest integer, a tie going up.
RoundDiv(num, den) == (2 * num + den) \div (2 * den)

(***************************************************************************)
(* useLocalStorage (lines 12-25).  A raw entry is RawAbsent (getItem gave  *)
(* null), RawEmpty (the empty string), RawGarbage (text JSON.parse         *)
(* rejects), RawUnreadable (getItem throws) or [json |-> v].               *)
(***************************************************************************)
RawAbsent  == [absent |-> TRUE]
RawUnreadable == [unreadable |-> TRUE]
RawEmpty   == [empty |-> TRUE]
RawGarbage == [garbage |-> TRUE]
Stringify(v) == [json |-> v]

Keys == {"pcv.pdfUrl", "pcv.appUrl", "pcv.view", "pcv.orient", "pcv.splitPct",
         "pcv.swap", "pcv.theme", "pcv.pdfZoom", "pcv.showToolbar"}

\* The initializer of useState: raw ? JSON.parse(raw) : initial, initial on a throw.
ReadStored(raw, initial) ==
    IF raw = RawAbsent \/ raw = RawEmpty THEN initial
    ELSE IF raw = RawGarbage \/ raw = RawUnreadable THEN initial
    ELSE raw.json

\* The effect: localStorage.setItem(key, JSON.stringify(val)) for every hook.
StorageOf(pu, au, v, o, sp, sw, th, z, tb) ==
    [k \in Keys |->
        CASE k = "pcv.pdfUrl"      -> Stringify(pu)
          [] k = "pcv.appUrl"      -> Stringify(au)
          [] k = "pcv.view"        -> Stringify(v)
          [] k = "pcv.orient"      -> Stringify(o)
          [] k = "pcv.splitPct"    -> Stringify(sp)
          [] k = "pcv.swap"        -> Stringify(sw)
          [] k = "pcv.theme"       -> Stringify(th)
          [] k = "pcv.pdfZoom"     -> Stringify(z)
          [] k = "pcv.showToolbar" -> Stringify(tb)]

\* The host's storage: it works, it is full (setItem throws, line 22) or access
\* to it is denied (getItem and setItem throw, lines 15 and 22).
StorageModes == {"ok", "full", "denied"}

\* What getItem gives for every key.
Visible(st, mode) ==
    IF mode = "denied" THEN [k \in Keys |-> RawUnreadable] ELSE st

\* A plausible slip: the effect writes the value of the render before the
\* change (a stale closure).
PersistStale ==
    storage' = [k \in Keys |->
                  IF storageMode = "ok"
                  THEN StorageOf(pdfUrl, appUrl, view, orientation, splitPct, swap,
                                 theme, pdfZoom, showToolbar)[k]
                  ELSE storage[k]]

\* The effects after a render (deps [key, val]): every hook whose value changed
\* calls setItem; a throw is caught and leaves the entry as it was.
Persist ==
    LET old == StorageOf(pdfUrl, appUrl, view, orientation, splitPct, swap, theme,
                         pdfZoom, showToolbar)
        new == StorageOf(pdfUrl', appUrl', view', orientation', splitPct', swap',
                         theme', pdfZoom', showToolbar')
    IN storage' = [k \in Keys |->
                     IF storageMode = "ok" /\ new[k] # old[k] THEN new[k]
                     ELSE storage[k]]

\* The effects after the first render: every hook calls setItem.
MountPersist ==
    storage' = IF storageMode = "ok"
               THEN StorageOf(pdfUrl', appUrl', view', orientation', splitPct',
                              swap', theme', pdfZoom', showToolbar')
               ELSE storage

\* The drag effect (lines 243-257): after every render the document listeners
\* are attached exactly when isDragging.
DragEffect == listeners' = isDragging'

(***************************************************************************)
(* Mount (lines 31-53): every hook reads its key.                          *)
(***************************************************************************)
Loaded(st) ==
    [pdfUrl      |-> ReadStored(st["pcv.pdfUrl"], Null),
     appUrl      |-> ReadStored(st["pcv.appUrl"], Null),
     view        |-> ReadStored(st["pcv.view"], "split"),
     orientation |-> ReadStored(st["pcv.orient"], "horizontal"),
     splitPct    |-> ReadStored(st["pcv.splitPct"], 50),
     swap        |-> ReadStored(st["pcv.swap"], FALSE),
     theme       |-> ReadStored(st["pcv.theme"], "light"),
     pdfZoom     |-> ReadStored(st["pcv.pdfZoom"], ZoomDefault),
     showToolbar |-> ReadStored(st["pcv.showToolbar"], TRUE)]

\* The first render on localStorage contents st, its effects run.
MountIn(st, mode) ==
    /\ storageMode = mode
    /\ pdfUrl = Loaded(Visible(st, mode)).pdfUrl
    /\ pdfFile = Null
    /\ appUrl = Loaded(Visible(st, mode)).appUrl
    /\ appSrcDoc = Null
    /\ appFile = Null
    /\ view = Loaded(Visible(st, mode)).view
    /\ orientation = Loaded(Visible(st, mode)).orientation
    /\ splitPct = Loaded(Visible(st, mode)).splitPct
    /\ swap = Loaded(Visible(st, mode)).swap
    /\ theme = Loaded(Visible(st, mode)).theme
    /\ pdfZoom = Loaded(Visible(st, mode)).pdfZoom
    /\ isDragging = FALSE
    /\ showToolbar = Loaded(Visible(st, mode)).showToolbar
    /\ showKeyboardShortcuts = FALSE
    /\ isFullscreen = FALSE
    /\ fsElement = FALSE
    /\ fsQueue = <<>>
    /\ fsEvents = 0
    /\ storage = IF mode = "ok"
                 THEN StorageOf(pdfUrl, appUrl, view, orientation, splitPct, swap,
                                theme, pdfZoom, showToolbar)
                 ELSE st
    /\ nextUrl = 1
    /\ liveUrls = <<>>
    /\ listeners = FALSE
    /\ notice = Null
    /\ thrown = Null
    /\ download = Null
    /\ evt = [op |-> "mount", read |-> Visible(st, mode)]

Mount(st) == MountIn(st, "ok")

\* What localStorage may hold when the page is opened.
EmptyStorage == [k \in Keys |-> RawAbsent]

StoredSplits == {RawAbsent, RawGarbage, RawEmpty, Stringify(50), Stringify(5),
                 Stringify(200)}
StoredZooms  == {RawAbsent, RawGarbage, Stringify(100), Stringify(10),
                 Stringify(500)}
StoredUrls   == {RawAbsent, Stringify(Null), Stringify([blob |-> 0])}

StartupStorages ==
    {[EmptyStorage EXCEPT !["pcv.splitPct"] = s, !["pcv.pdfZoom"] = z,
                          !["pcv.pdfUrl"] = u]
        : s \in StoredSplits, z \in StoredZooms, u \in StoredUrls}

(***************************************************************************)
(* Frames.                                                                 *)
(***************************************************************************)
fs       == <<isFullscreen, fsElement, fsQueue, fsEvents>>
urls     == <<nextUrl, liveUrls>>

\* What every handler does besides its own assignments: no alert, no
\* exception, and the effects that follow the render.
Effects(e) ==
    /\ evt' = e
    /\ storageMode' = storageMode
    /\ DragEffect
    /\ Persist

Quiet(e) ==
    /\ notice' = Null
    /\ thrown' = Null
    /\ Effects(e)

(***************************************************************************)
(* Toolbar: view pills (lines 428-457), orientation buttons (509-528).     *)
(***************************************************************************)
SetViewButton(m) ==
    /\ showToolbar
    /\ view' = m
    /\ UNCHANGED <<docs, orientation, splitPct, swap, theme, pdfZoom, showToolbar,
                   isDragging, showKeyboardShortcuts, fs, urls, download>>
    /\ Quiet([op |-> "viewButton", arg |-> m])

SetOrientationButton(o) ==
    /\ showToolbar
    /\ orientation' = o
    /\ UNCHANGED <<docs, view, splitPct, swap, theme, pdfZoom, showToolbar,
                   isDragging, showKeyboardShortcuts, fs, urls, download>>
    /\ Quiet([op |-> "orientButton", arg |-> o])

(***************************************************************************)
(* Split slider (lines 485-503): a range input with min 15 and max 85, so  *)
(* its value v is an integer of that range; onChange stores parseInt(v).   *)
(***************************************************************************)
SliderChange(v) ==
    /\ showToolbar
    /\ view = "split"
    /\ v \in SplitMin..SplitMax
    /\ splitPct' = v
    /\ UNCHANGED <<docs, view, orientation, swap, theme, pdfZoom, showToolbar,
                   isDragging, showKeyboardShortcuts, fs, urls, download>>
    /\ Quiet([op |-> "slider", arg |-> v])

(***************************************************************************)
(* Zoom buttons (lines 461-482), shown when a PDF is displayed.            *)
(***************************************************************************)
ZoomShown == showToolbar /\ pdfUrl # Null /\ view \in {"paper", "split"}

ZoomOutValue(z) == Max(ZoomMin, z - ZoomStep)
ZoomInValue(z)  == Min(ZoomMax, z + ZoomStep)

ZoomOut ==
    /\ ZoomShown
    /\ pdfZoom' = ZoomOutValue(pdfZoom)
    /\ UNCHANGED <<docs, view, orientation, splitPct, swap, theme, showToolbar,
                   isDragging, showKeyboardShortcuts, fs, urls, download>>
    /\ Quiet([op |-> "zoomOut"])

ZoomIn ==
    /\ ZoomShown
    /\ pdfZoom' = ZoomInValue(pdfZoom)
    /\ UNCHANGED <<docs, view, orientation, splitPct, swap, theme, showToolbar,
                   isDragging, showKeyboardShortcuts, fs, urls, download>>
    /\ Quiet([op |-> "zoomIn"])

(***************************************************************************)
(* Divider drag (lines 213-257).  The divider and the .split-container     *)
(* exist only in the split view (lines 635-699).                           *)
(***************************************************************************)
ContainerShown == view = "split"

\* A plausible slip: the percentage is rounded and stored without the clamp.
RoundUnclamped(num, den) == RoundDiv(100 * num, den)

\* Math.round(Math.max(15, Math.min(85, num/den * 100))), den > 0.
ClampRound(num, den) ==
    IF 100 * num >= SplitMax * den THEN SplitMax
    ELSE IF 100 * num <= SplitMin * den THEN SplitMin
    ELSE RoundDiv(100 * num, den)

NewSplit(cx, cy) ==
    IF orientation = "horizontal"
    THEN ClampRound(cx - RectLeft, ContainerW)
    ELSE ClampRound(cy - RectTop, ContainerH)

handleMouseDown ==
    /\ ContainerShown
    /\ isDragging' = TRUE
    /\ UNCHANGED <<docs, layout, showKeyboardShortcuts, fs, urls, download>>
    /\ Quiet([op |-> "mousedown"])

\* A plausible slip: the release listener sits on the divider element, so a
\* release elsewhere is not seen.
MouseUpOnDivider(over) == listeners /\ over

\* Whether a button release reaches handleMouseUp: the listener is attached to
\* the document (line 246), wherever the pointer is; over: the pointer is over
\* the divider's hit area.
MouseUpHandled(over) == listeners

handleMouseUp(over) ==
    /\ isDragging' = (IF MouseUpHandled(over) THEN FALSE ELSE isDragging)
    /\ UNCHANGED <<docs, layout, showKeyboardShortcuts, fs, urls, download>>
    /\ Quiet([op |-> "mouseup", over |-> over, handled |-> MouseUpHandled(over)])

handleMouseMove(cx, cy) ==
    /\ splitPct' = IF listeners /\ isDragging /\ ContainerShown
                   THEN NewSplit(cx, cy)
                   ELSE splitPct
    /\ UNCHANGED <<docs, view, orientation, swap, theme, pdfZoom, showToolbar,
                   isDragging, showKeyboardShortcuts, fs, urls, download>>
    /\ Quiet([op |-> "mousemove", x |-> cx, y |-> cy])

(***************************************************************************)
(* Fullscreen (lines 310-330).  toggleFullscreen asks the host, which       *)
(* answers later.  When the host changes the fullscreen element it queues a *)
(* fullscreenchange event and settles the promise in the same step, so the  *)
(* continuation of line 314 / 318 runs before anything else; the event is   *)
(* dispatched at a later animation frame.                                   *)
(***************************************************************************)
toggleFullscreen ==
    fsQueue' = Append(fsQueue, IF ~fsElement THEN "request" ELSE "exit")

\* The toolbar's fullscreen button (lines 557-562).
FullscreenButton ==
    /\ showToolbar
    /\ Len(fsQueue) < MaxFsQueue
    /\ toggleFullscreen
    /\ UNCHANGED <<docs, layout, isDragging, showKeyboardShortcuts, isFullscreen,
                   fsElement, fsEvents, urls, download>>
    /\ Quiet([op |-> "fullscreenButton"])

\* The host answers the oldest request.  Granted: the fullscreen element is
\* changed if it is not already as asked, and the continuation sets the flag.
\* Refused: the promise rejects and the catch of lines 315 / 319 swallows it.
FsAnswer(granted) ==
    /\ fsQueue # <<>>
    /\ fsQueue' = Tail(fsQueue)
    /\ LET want == Head(fsQueue) = "request" IN
       IF granted
       THEN /\ fsEvents + (IF fsElement # want THEN 1 ELSE 0) <= MaxFsEvents
            /\ fsElement' = want
            /\ fsEvents' = fsEvents + (IF fsElement # want THEN 1 ELSE 0)
            /\ isFullscreen' = want
       ELSE UNCHANGED <<fsElement, fsEvents, isFullscreen>>
    /\ UNCHANGED <<docs, layout, isDragging, showKeyboardShortcuts, urls, download>>
    /\ Quiet([op |-> "fsAnswer", arg |-> granted])

\* The user leaves fullscreen with the host's own control.
FsHostExit ==
    /\ fsElement
    /\ fsEvents < MaxFsEvents
    /\ fsElement' = FALSE
    /\ fsEvents' = fsEvents + 1
    /\ UNCHANGED <<docs, layout, isDragging, showKeyboardShortcuts, isFullscreen,
                   fsQueue, urls, download>>
    /\ Quiet([op |-> "fsHostExit"])

\* A plausible slip: the listener flips the flag instead of reading the host.
FlagToggled == ~isFullscreen

\* What handleFullscreenChange stores: !!document.fullscreenElement (line 325).
FlagFromHost == fsElement

\* A queued fullscreenchange event is dispatched (lines 323-330).
handleFullscreenChange ==
    /\ fsEvents > 0
    /\ fsEvents' = fsEvents - 1
    /\ isFullscreen' = FlagFromHost
    /\ UNCHANGED <<docs, layout, isDragging, showKeyboardShortcuts, fsElement,
                   fsQueue, urls, download>>
    /\ Quiet([op |-> "fullscreenchange"])

(***************************************************************************)
(* Keyboard shortcuts (lines 260-308).  mod: ctrlKey or metaKey.           *)
(***************************************************************************)
KeyNames == {"Escape", "1", "2", "3", "d", "f", "s", "h", "F11", "x"}

\* A plausible slip: case 'd' lacks its break and runs on into case 'f'.
SwitchNoBreak(key) ==
    CASE key = "1" -> {"viewSplit"}
      [] key = "2" -> {"viewPaper"}
      [] key = "3" -> {"viewApp"}
      [] key = "d" -> {"theme", "fullscreen"}
      [] key = "f" -> {"fullscreen"}
      [] key = "s" -> {"swap"}
      [] key = "h" -> {"toolbar"}
      [] OTHER -> {}

\* The actions the switch of lines 269-298 runs.
SwitchActions(key) ==
    CASE key = "1" -> {"viewSplit"}
      [] key = "2" -> {"viewPaper"}
      [] key = "3" -> {"viewApp"}
      [] key = "d" -> {"theme"}
      [] key = "f" -> {"fullscreen"}
      [] key = "s" -> {"swap"}
      [] key = "h" -> {"toolbar"}
      [] OTHER -> {}

\* theme === 'light' ? 'dark' : 'light' (lines 284 and 553).
ThemeFlip(t) == IF t = "light" THEN "dark" ELSE "light"

\* The actions one keydown runs: Escape returns early (262-266), then the
\* switch under a modifier, then the F11 test (300-303).
Fired(key, mod) ==
    IF key = "Escape" THEN {"dismissHelp"}
    ELSE (IF mod THEN SwitchActions(key) ELSE {})
            \cup (IF key = "F11" THEN {"fullscreen"} ELSE {})

\* Whether e.preventDefault() is called (lines 263, 271-295, 301).
Prevented(key, mod) ==
    \/ key = "Escape"
    \/ (mod /\ key \in {"1", "2", "3", "d", "f", "s", "h"})
    \/ key = "F11"

handleKeyDown(key, mod) ==
    LET F == Fired(key, mod) IN
    /\ key \in KeyNames
    /\ ("fullscreen" \in F) => Len(fsQueue) < MaxFsQueue
    /\ showKeyboardShortcuts' = IF "dismissHelp" \in F THEN FALSE
                                ELSE showKeyboardShortcuts
    /\ view' = IF "viewApp" \in F THEN "app"
               ELSE IF "viewPaper" \in F THEN "paper"
               ELSE IF "viewSplit" \in F THEN "split"
               ELSE view
    /\ theme' = IF "theme" \in F THEN ThemeFlip(theme) ELSE theme
    /\ swap' = IF "swap" \in F THEN ~swap ELSE swap
    /\ showToolbar' = IF "toolbar" \in F THEN ~showToolbar ELSE showToolbar
    /\ IF "fullscreen" \in F THEN toggleFullscreen ELSE fsQueue' = fsQueue
    /\ UNCHANGED <<docs, orientation, splitPct, pdfZoom, isDragging, isFullscreen,
                   fsElement, fsEvents, urls, download>>
    /\ Quiet([op |-> "keydown", key |-> key, mod |-> mod, fired |-> F,
              prevented |-> Prevented(key, mod)])

\* The toolbar's swap (529-538), theme (550-555) and hide (564-569) buttons, and
\* the floating button that shows the toolbar again (lines 603-617).
SwapButton ==
    /\ showToolbar
    /\ swap' = ~swap
    /\ UNCHANGED <<docs, view, orientation, splitPct, theme, pdfZoom, showToolbar,
                   isDragging, showKeyboardShortcuts, fs, urls, download>>
    /\ Quiet([op |-> "swapButton"])

ThemeButton ==
    /\ showToolbar
    /\ theme' = ThemeFlip(theme)
    /\ UNCHANGED <<docs, view, orientation, splitPct, swap, pdfZoom, showToolbar,
                   isDragging, showKeyboardShortcuts, fs, urls, download>>
    /\ Quiet([op |-> "themeButton"])

HideToolbarButton ==
    /\ showToolbar
    /\ showToolbar' = FALSE
    /\ UNCHANGED <<docs, view, orientation, splitPct, swap, theme, pdfZoom,
                   isDragging, showKeyboardShortcuts, fs, urls, download>>
    /\ Quiet([op |-> "hideToolbarButton"])

ShowToolbarButton ==
    /\ ~showToolbar
    /\ showToolbar' = TRUE
    /\ UNCHANGED <<docs, view, orientation, splitPct, swap, theme, pdfZoom,
                   isDragging, showKeyboardShortcuts, fs, urls, download>>
    /\ Quiet([op |-> "showToolbarButton"])

\* The help button of the toolbar (line 546) opens the shortcuts overlay.
ShowShortcutsButton ==
    /\ showToolbar
    /\ showKeyboardShortcuts' = TRUE
    /\ UNCHANGED <<docs, layout, isDragging, fs, urls, download>>
    /\ Quiet([op |-> "helpButton"])

(***************************************************************************)
(* Object URLs.                                                            *)
(***************************************************************************)
IsBlobUrl(u) == "blob" \in DOMAIN u            \* u.startsWith("blob:")
BlobUrl(n)   == [blob |-> n]

\* URL.revokeObjectURL(u)
Revoked(live, u) == [n \in DOMAIN live \ {u.blob} |-> live[n]]

(***************************************************************************)
(* File handlers (lines 63-107).                                           *)
(***************************************************************************)
onPickPdf(file) ==
    /\ nextUrl <= MaxUrls
    /\ pdfUrl' = BlobUrl(nextUrl)
    /\ pdfFile' = file
    /\ nextUrl' = nextUrl + 1
    /\ liveUrls' = (nextUrl :> file.bytes) @@ liveUrls
    /\ UNCHANGED <<appUrl, appSrcDoc, appFile, layout, isDragging,
                   showKeyboardShortcuts, fs, download>>
    /\ Quiet([op |-> "pickPdf", arg |-> file])

onPickHtml(file) ==
    /\ nextUrl <= MaxUrls
    /\ appFile' = file
    /\ appUrl' = BlobUrl(nextUrl)
    /\ appSrcDoc' = Null
    /\ nextUrl' = nextUrl + 1
    /\ liveUrls' = (nextUrl :> file.bytes) @@ liveUrls
    /\ UNCHANGED <<pdfUrl, pdfFile, layout, isDragging, showKeyboardShortcuts,
                   fs, download>>
    /\ Quiet([op |-> "pickHtml", arg |-> file])

\* What items.find accepts (lines 103-104); a file's declared type follows
\* its suffix.
IsPdfFile(f)  == f.name = "paper.pdf"
IsHtmlFile(f) == f.name = "app.html"

\* A drop that carries a PDF and a markup file: onPickPdf, then onPickHtml.
onDrop(pdf, html) ==
    /\ IsPdfFile(pdf)
    /\ IsHtmlFile(html)
    /\ nextUrl + 1 <= MaxUrls
    /\ pdfUrl' = BlobUrl(nextUrl)
    /\ pdfFile' = pdf
    /\ appFile' = html
    /\ appUrl' = BlobUrl(nextUrl + 1)
    /\ appSrcDoc' = Null
    /\ nextUrl' = nextUrl + 2
    /\ liveUrls' = (nextUrl :> pdf.bytes) @@ (nextUrl + 1 :> html.bytes) @@ liveUrls
    /\ UNCHANGED <<layout, isDragging, showKeyboardShortcuts, fs, download>>
    /\ Quiet([op |-> "drop", pdf |-> pdf, html |-> html])

\* The clear buttons are rendered when the File is held (lines 371, 390).
onClearPdf ==
    /\ showToolbar
    /\ pdfFile # Null
    /\ liveUrls' = IF pdfUrl # Null /\ IsBlobUrl(pdfUrl)
                   THEN Revoked(liveUrls, pdfUrl)
                   ELSE liveUrls
    /\ pdfUrl' = Null
    /\ pdfFile' = Null
    /\ pdfZoom' = ZoomDefault
    /\ UNCHANGED <<appUrl, appSrcDoc, appFile, view, orientation, splitPct, swap,
                   theme, showToolbar, isDragging, showKeyboardShortcuts, fs,
                   nextUrl, download>>
    /\ Quiet([op |-> "clearPdf"])

onClearHtml ==
    /\ showToolbar
    /\ appFile # Null
    /\ liveUrls' = IF appUrl # Null /\ IsBlobUrl(appUrl)
                   THEN Revoked(liveUrls, appUrl)
                   ELSE liveUrls
    /\ appUrl' = Null
    /\ appSrcDoc' = Null
    /\ appFile' = Null
    /\ UNCHANGED <<pdfUrl, pdfFile, layout, isDragging, showKeyboardShortcuts, fs,
                   nextUrl, download>>
    /\ Quiet([op |-> "clearHtml"])

(***************************************************************************)
(* JSON values of a manifest: strings Str(s), numbers Num(n), the value    *)
(* null JNull; an object is a function from its field names to values.     *)
(***************************************************************************)
Str(x)    == [str |-> x]
Num(n)    == [num |-> n]
JNull     == [jnull |-> TRUE]
Undefined == [undef |-> TRUE]
IsStr(v)  == "str" \in DOMAIN v
IsNum(v)  == "num" \in DOMAIN v

\* manifest.f of a parsed object
Field(m, f) == IF f \in DOMAIN m THEN m[f] ELSE Undefined

\* JavaScript truthiness of a field value
Truthy(v) == (IsStr(v) /\ v.str # "") \/ (IsNum(v) /\ v.num # 0)

\* files[v]: the property key a value is converted to
NumeralOf(n) == IF n = 5 THEN "5" ELSE "0"
ToKey(v) == IF IsStr(v) THEN v.str
            ELSE IF IsNum(v) THEN NumeralOf(v.num)
            ELSE "undefined"

\* name.split("/").pop(), on the entry names of the model
Basename(n) == IF n = "a/doc" THEN "doc"
               ELSE IF n = "dir/" THEN ""
               ELSE n

\* name.replace(/\.pdf$/i, "")
StripPdf(n) == IF n = "paper.pdf" THEN "paper" ELSE n

(***************************************************************************)
(* Byte strings and archives.                                              *)
(***************************************************************************)
Raw(b)      == [raw |-> b]
JsonText(v) == [json |-> v]            \* strToU8(JSON.stringify(v))
IsJsonText(bytes) == "json" \in DOMAIN bytes

NotZip == [notzip |-> TRUE]
IsZip(buf) == buf # NotZip

\* files[name] of the object unzipSync returns
HasEntry(files, name) == name \in DOMAIN files

\* zipSync of the object literal of lines 197-201: a later key of the same
\* name replaces an earlier one.
ZipBundle(manifest, pdfName, pdfBytes, appName, appBytes) ==
    (appName :> appBytes) @@ (pdfName :> pdfBytes)
        @@ ("manifest.json" :> JsonText(manifest))

(***************************************************************************)
(* onOpenBundle (lines 113-155).  OpenStage(buf) is the place where the    *)
(* handler stops on the file bytes buf.                                    *)
(***************************************************************************)
ManifestOf(files) == files["manifest.json"].json

OpenStage(buf) ==
    IF ~IsZip(buf) THEN "unzipThrows"                          \* line 115
    ELSE IF ~HasEntry(buf, "manifest.json") THEN "noManifest"  \* line 117
    ELSE IF ~IsJsonText(buf["manifest.json"]) THEN "parseThrows"  \* line 121
    ELSE IF ManifestOf(buf) = JNull THEN "manifestThrows"      \* line 130
    ELSE IF ~HasEntry(buf, ToKey(Field(ManifestOf(buf), "paper")))
         THEN "paperMissing"                                   \* line 131
    ELSE IF ~IsStr(Field(ManifestOf(buf), "paper"))
         THEN "paperNameThrows"                                \* line 138
    ELSE IF ~HasEntry(buf, ToKey(Field(ManifestOf(buf), "app")))
         THEN "appMissing"                                     \* line 142
    ELSE IF ~IsStr(Field(ManifestOf(buf), "app"))
         THEN "appNameThrows"                                  \* line 150
    ELSE "ok"

\* Stages at which the PDF handles (lines 135-138) have been assigned.
PdfUrlSetStages  == {"paperNameThrows", "appMissing", "appNameThrows", "ok"}
PdfFileSetStages == {"appMissing", "appNameThrows", "ok"}
AppUrlSetStages  == {"appNameThrows", "ok"}

\* A plausible slip: the PDF URL is created and assigned as soon as the archive
\* is unzipped, before the manifest is looked at.
OpenedPdfUrlEarly(buf) == IF IsZip(buf) THEN BlobUrl(nextUrl) ELSE pdfUrl

\* pdfUrl after the handler (lines 135-137).
OpenedPdfUrl(buf) ==
    IF OpenStage(buf) \in PdfUrlSetStages THEN BlobUrl(nextUrl) ELSE pdfUrl

OrDefault(name, default) == IF name = "" THEN default ELSE name

Unwrap(v) == IF IsStr(v) THEN v.str ELSE v.num

OpenNotice(buf) ==
    CASE OpenStage(buf) = "noManifest" -> [kind |-> "MissingManifest"]
      [] OpenStage(buf) = "paperMissing" ->
            [kind |-> "MissingEntry",
             name |-> ToKey(Field(ManifestOf(buf), "paper"))]
      [] OpenStage(buf) = "appMissing" ->
            [kind |-> "MissingEntry",
             name |-> ToKey(Field(ManifestOf(buf), "app"))]
      [] OTHER -> Null

OpenThrown(buf) ==
    CASE OpenStage(buf) = "unzipThrows" -> [error |-> "invalid zip data"]
      [] OpenStage(buf) = "parseThrows" -> [error |-> "SyntaxError"]
      [] OpenStage(buf) \in {"manifestThrows", "paperNameThrows", "appNameThrows"}
            -> [error |-> "TypeError"]
      [] OTHER -> Null

\* The clamp of line 153 on the number n/d, d > 0: the numerator, over d, of
\* Math.min(85, Math.max(15, n/d)).
ClampSplitOver(n, d) == Min(SplitMax * d, Max(SplitMin * d, n))

\* The same on an integer.
ClampSplit(n) == ClampSplitOver(n, 1)

\* What line 153 hands to setSplitPct for a bundle whose manifest.split is the
\* number n/d, recorded with its input; out is the numerator over d.
ManifestSplit(n, d) ==
    /\ d > 0
    /\ evt' = [op |-> "manifestSplit", num |-> n, den |-> d,
                out |-> ClampSplitOver(n, d)]
    /\ UNCHANGED <<docs, layout, isDragging, showKeyboardShortcuts, fs, urls,
                   storage, storageMode, listeners, notice, thrown, download>>

\* A plausible slip: the split is applied under a truthiness test, like the
\* layout and the orientation, so a split of 0 is skipped.
SplitAppliedIfTruthy(m) == Truthy(Field(m, "split"))

\* The test of line 153: typeof manifest.split === "number".
SplitApplied(m) == IsNum(Field(m, "split"))

onOpenBundle(buf) ==
    LET stage == OpenStage(buf)
        m     == ManifestOf(buf)
        paper == Field(m, "paper")
        app   == Field(m, "app")
        pdfN  == nextUrl
        appN  == nextUrl + 1
    IN
    /\ showToolbar
    /\ nextUrl + (IF stage \in AppUrlSetStages THEN 2
                  ELSE IF stage \in PdfUrlSetStages THEN 1 ELSE 0) <= MaxUrls + 1
    /\ pdfUrl' = OpenedPdfUrl(buf)
    /\ pdfFile' = IF stage \in PdfFileSetStages
                  THEN [name  |-> OrDefault(Basename(paper.str), "paper.pdf"),
                        bytes |-> buf[ToKey(paper)]]
                  ELSE pdfFile
    /\ appUrl' = IF stage \in AppUrlSetStages THEN BlobUrl(appN) ELSE appUrl
    /\ appSrcDoc' = IF stage \in AppUrlSetStages THEN Null ELSE appSrcDoc
    /\ appFile' = IF stage = "ok"
                  THEN [name  |-> OrDefault(Basename(app.str), "calculator.html"),
                        bytes |-> buf[ToKey(app)]]
                  ELSE appFile
    /\ nextUrl' = IF stage \in AppUrlSetStages THEN nextUrl + 2
                  ELSE IF stage \in PdfUrlSetStages THEN nextUrl + 1
                  ELSE nextUrl
    /\ liveUrls' = IF stage \in AppUrlSetStages
                   THEN (pdfN :> buf[ToKey(paper)]) @@ (appN :> buf[ToKey(app)])
                            @@ liveUrls
                   ELSE IF stage \in PdfUrlSetStages
                   THEN (pdfN :> buf[ToKey(paper)]) @@ liveUrls
                   ELSE liveUrls
    /\ view' = IF stage = "ok" /\ Truthy(Field(m, "layout"))
               THEN Unwrap(Field(m, "layout")) ELSE view
    /\ splitPct' = IF stage = "ok" /\ SplitApplied(m)
                   THEN ClampSplit(Field(m, "split").num) ELSE splitPct
    /\ orientation' = IF stage = "ok" /\ Truthy(Field(m, "orientation"))
                      THEN Unwrap(Field(m, "orientation")) ELSE orientation
    /\ notice' = OpenNotice(buf)
    /\ thrown' = OpenThrown(buf)
    /\ UNCHANGED <<swap, theme, pdfZoom, showToolbar, isDragging,
                   showKeyboardShortcuts, fs, download>>
    /\ Effects([op |-> "openBundle", arg |-> buf])

(***************************************************************************)
(* onSaveBundle (lines 157-210).                                           *)
(***************************************************************************)
SaveStage ==
    IF pdfFile = Null \/ (appFile = Null /\ appSrcDoc = Null /\ appUrl = Null)
    THEN "precondition"                                        \* line 158
    ELSE IF appFile # Null THEN "ok"                           \* line 166
    ELSE IF appSrcDoc # Null THEN "ok"                         \* line 170
    ELSE IF IsBlobUrl(appUrl)                                  \* line 172
         THEN (IF appUrl.blob \in DOMAIN liveUrls THEN "ok" ELSE "fetchThrows")
    ELSE "noBytes"                                             \* line 179

AppBytes == IF appFile # Null THEN appFile.bytes
            ELSE IF appSrcDoc # Null THEN appSrcDoc
            ELSE liveUrls[appUrl.blob]

AppName == IF appFile # Null THEN OrDefault(appFile.name, "calculator.html")
           ELSE "calculator.html"

PdfName == OrDefault(pdfFile.name, "paper.pdf")

\* The manifest of lines 187-195.
SaveManifest ==
    [title       |-> Str(StripPdf(PdfName)),
     paper       |-> Str(PdfName),
     app         |-> Str(AppName),
     layout      |-> Str(view),
     split       |-> Num(splitPct),
     orientation |-> Str(orientation),
     version     |-> Num(1)]

\* A plausible slip: the precondition returns without its alert.
SaveNoticeSilent ==
    IF SaveStage = "noBytes" THEN [kind |-> "ContentCaptureFailure"] ELSE Null

SaveNotice ==
    CASE SaveStage = "precondition" -> [kind |-> "PreconditionFailure"]
      [] SaveStage = "noBytes" -> [kind |-> "ContentCaptureFailure"]
      [] OTHER -> Null

SaveThrown ==
    IF SaveStage = "fetchThrows" THEN [error |-> "TypeError: Failed to fetch"]
    ELSE Null

\* The download carries, beside the archive, the state it was saved from.
onSaveBundle ==
    /\ showToolbar
    /\ SaveStage = "ok" => nextUrl <= MaxUrls
    /\ IF SaveStage = "ok"
       THEN /\ download' =
                [title   |-> OrDefault(StripPdf(PdfName), "bundle"),
                 archive |-> ZipBundle(SaveManifest, PdfName, pdfFile.bytes,
                                       AppName, AppBytes),
                 from    |-> [view |-> view, splitPct |-> splitPct,
                              orientation |-> orientation,
                              pdfName |-> PdfName, appName |-> AppName,
                              pdfBytes |-> pdfFile.bytes, appBytes |-> AppBytes]]
            /\ nextUrl' = nextUrl + 1
            /\ liveUrls' = (nextUrl :> download'.archive) @@ liveUrls
       ELSE UNCHANGED <<download, nextUrl, liveUrls>>
    /\ notice' = SaveNotice
    /\ thrown' = SaveThrown
    /\ UNCHANGED <<docs, layout, isDragging, showKeyboardShortcuts, fs>>
    /\ Effects([op |-> "saveBundle"])

(***************************************************************************)
(* A page reload: a fresh mount on what localStorage holds; the object     *)
(* URLs of the session that ends are gone with its document.               *)
(***************************************************************************)
Reload ==
    /\ pdfUrl' = Loaded(Visible(storage, storageMode)).pdfUrl
    /\ pdfFile' = Null
    /\ appUrl' = Loaded(Visible(storage, storageMode)).appUrl
    /\ appSrcDoc' = Null
    /\ appFile' = Null
    /\ view' = Loaded(Visible(storage, storageMode)).view
    /\ orientation' = Loaded(Visible(storage, storageMode)).orientation
    /\ splitPct' = Loaded(Visible(storage, storageMode)).splitPct
    /\ swap' = Loaded(Visible(storage, storageMode)).swap
    /\ theme' = Loaded(Visible(storage, storageMode)).theme
    /\ pdfZoom' = Loaded(Visible(storage, storageMode)).pdfZoom
    /\ isDragging' = FALSE
    /\ showToolbar' = Loaded(Visible(storage, storageMode)).showToolbar
    /\ showKeyboardShortcuts' = FALSE
    /\ isFullscreen' = FALSE
    /\ fsElement' = FALSE
    /\ fsQueue' = <<>>
    /\ fsEvents' = 0
    /\ liveUrls' = <<>>
    /\ UNCHANGED <<nextUrl, download, storageMode>>
    /\ notice' = Null
    /\ thrown' = Null
    /\ evt' = [op |-> "reload", read |-> Visible(storage, storageMode)]
    /\ DragEffect
    /\ MountPersist

\* The host's storage fills up, is emptied of other sites' data, or the user
\* changes the permission: what the try blocks of lines 14-19 and 22 meet.
StorageAvailability(m) ==
    /\ m \in StorageModes
    /\ m # storageMode
    /\ storageMode' = m
    /\ evt' = [op |-> "storageMode", arg |-> m]
    /\ UNCHANGED <<docs, layout, isDragging, showKeyboardShortcuts, fs, urls,
                   storage, listeners, notice, thrown, download>>

(***************************************************************************)
(* Inputs.                                                                 *)
(***************************************************************************)
ViewModes    == {"split", "paper", "app"}
Orientations == {"horizontal", "vertical"}

\* Files the user may pick or drop.
PdfFiles  == {[name |-> "paper.pdf", bytes |-> Raw(1)],
              [name |-> "doc", bytes |-> Raw(1)],
              [name |-> "manifest.json", bytes |-> Raw(1)]}
HtmlFiles == {[name |-> "app.html", bytes |-> Raw(2)],
              [name |-> "doc", bytes |-> Raw(2)]}

\* Pointer positions, in client coordinates, inside and around the container.
PointerXs == 0..(RectLeft + ContainerW + 1)
PointerYs == 0..(RectTop + ContainerH + 1)

\* Bundle files the user may open.
TwoDocs == ("paper.pdf" :> Raw(1)) @@ ("app.html" :> Raw(2))

FullManifest ==
    [title |-> Str("paper"), paper |-> Str("paper.pdf"), app |-> Str("app.html"),
     layout |-> Str("paper"), split |-> Num(60), orientation |-> Str("vertical"),
     version |-> Num(1)]
BareManifest == [paper |-> Str("paper.pdf"), app |-> Str("app.html")]

WithManifest(m, entries) == ("manifest.json" :> JsonText(m)) @@ entries

ArchiveGood       == WithManifest(FullManifest, TwoDocs)
ArchiveBare       == WithManifest(BareManifest, TwoDocs)
ArchiveWideSplit  == WithManifest([BareManifest EXCEPT !.paper = Str("a/doc")]
                                     @@ [split |-> Num(200)],
                                  ("a/doc" :> Raw(1)) @@ ("app.html" :> Raw(2)))
ArchiveLowSplit   == WithManifest(BareManifest @@ [split |-> Num(0 - 5)], TwoDocs)
ArchiveNoManifest == TwoDocs
ArchiveBadJson    == ("manifest.json" :> Raw(3)) @@ TwoDocs
ArchiveNullJson   == WithManifest(JNull, TwoDocs)
ArchiveNoPaper    == WithManifest(BareManifest, ("app.html" :> Raw(2)))
ArchiveNoApp      == WithManifest(BareManifest, ("paper.pdf" :> Raw(1)))
ArchiveNoPaperField == WithManifest([app |-> Str("app.html")], TwoDocs)
ArchiveNoAppField   == WithManifest([paper |-> Str("paper.pdf")], TwoDocs)
ArchiveNumPaper   == WithManifest([BareManifest EXCEPT !.paper = Num(5)],
                                  ("5" :> Raw(1)) @@ TwoDocs)
ArchiveUndefEntry == WithManifest([paper |-> Str("paper.pdf")],
                                  ("undefined" :> Raw(2)) @@ TwoDocs)

ArchiveZeroSplit  == WithManifest(BareManifest @@ [split |-> Num(0)], TwoDocs)

ArchiveOddLayout  == WithManifest(BareManifest @@ [layout |-> Str("grid"),
                                                   orientation |-> Str("diagonal")],
                                  TwoDocs)

LayoutArchives == {ArchiveGood, ArchiveBare, ArchiveWideSplit, ArchiveLowSplit}
BundleArchives == {NotZip, ArchiveGood, ArchiveWideSplit, ArchiveNoManifest,
                   ArchiveBadJson, ArchiveNullJson, ArchiveNoPaper, ArchiveNoApp,
                   ArchiveNoPaperField, ArchiveNoAppField, ArchiveNumPaper,
                   ArchiveUndefEntry}

(***************************************************************************)
(* Specifications.                                                         *)
(***************************************************************************)
\* Layout: the split percentage localStorage held at startup, the toolbar,
\* the divider, bundles that carry layout fields.
SplitStorages == {[EmptyStorage EXCEPT !["pcv.splitPct"] = s] : s \in StoredSplits}

InitLayout == \E st \in SplitStorages : Mount(st)

NextLayout ==
    \/ \E m \in ViewModes : SetViewButton(m)
    \/ \E o \in Orientations : SetOrientationButton(o)
    \/ \E v \in {SplitMin, 50, SplitMax} : SliderChange(v)
    \/ handleMouseDown
    \/ \E cx \in {RectLeft, RectLeft + ContainerW} : handleMouseMove(cx, RectTop)
    \/ \E over \in BOOLEAN : handleMouseUp(over)
    \/ \E a \in LayoutArchives : onOpenBundle(a)

SpecLayout == InitLayout /\ [][NextLayout]_vars

\* Zoom: the zoom and the PDF URL localStorage held at startup, the zoom
\* buttons, loading and clearing the PDF.
ZoomStorages ==
    {[EmptyStorage EXCEPT !["pcv.pdfZoom"] = z, !["pcv.pdfUrl"] = u]
        : z \in StoredZooms, u \in StoredUrls}

InitZoom == \E st \in ZoomStorages : Mount(st)

NextZoom ==
    \/ ZoomIn
    \/ ZoomOut
    \/ \E f \in {[name |-> "paper.pdf", bytes |-> Raw(1)]} : onPickPdf(f)
    \/ onClearPdf
    \/ \E m \in ViewModes : SetViewButton(m)
    \/ Reload

SpecZoom == InitZoom /\ [][NextZoom]_vars

\* Drag: the divider state machine, the pointer moving along either axis.
InitDrag == Mount(EmptyStorage)

NextDrag ==
    \/ handleMouseDown
    \/ \E cx \in PointerXs : handleMouseMove(cx, RectTop)
    \/ \E cy \in PointerYs : handleMouseMove(RectLeft + ContainerW, cy)
    \/ \E over \in BOOLEAN : handleMouseUp(over)
    \/ \E k \in {"1", "2", "3", "x"} : handleKeyDown(k, TRUE)
    \/ \E o \in Orientations : SetOrientationButton(o)
    \/ \E v \in {SplitMin, SplitMax} : SliderChange(v)

SpecDrag == InitDrag /\ [][NextDrag]_vars

\* Open: bundle files of every shape, opened over loaded or empty panes.
InitOpen == Mount(EmptyStorage)

NextOpen ==
    \/ \E f \in {[name |-> "doc", bytes |-> Raw(1)]} : onPickPdf(f)
    \/ \E f \in {[name |-> "doc", bytes |-> Raw(2)]} : onPickHtml(f)
    \/ onClearPdf
    \/ \E a \in BundleArchives : onOpenBundle(a)
    \/ SliderChange(60)

SpecOpen == InitOpen /\ [][NextOpen]_vars

\* Bundles: loading documents, saving them as an archive, changing the layout,
\* opening what was saved.
InitBundle == Mount(EmptyStorage)

NextBundle ==
    \/ \E f \in PdfFiles : onPickPdf(f)
    \/ \E f \in HtmlFiles : onPickHtml(f)
    \/ \E p \in PdfFiles, h \in HtmlFiles : onDrop(p, h)
    \/ onClearHtml
    \/ onSaveBundle
    \/ (download # Null /\ onOpenBundle(download.archive))
    \/ onOpenBundle(ArchiveGood)
    \/ SliderChange(60)
    \/ SetViewButton("split")
    \/ Reload

SpecBundle == InitBundle /\ [][NextBundle]_vars

\* Persistence: every layout field changed by its control while the host's
\* storage works or is full, and the page reloaded.  The page opens on what
\* an earlier session left: a PDF URL and a zoom of 175.
PersistStorage ==
    [EmptyStorage EXCEPT !["pcv.pdfUrl"] = Stringify(BlobUrl(0)),
                         !["pcv.pdfZoom"] = Stringify(175)]

InitPersist == Mount(PersistStorage)

NextPersist ==
    \/ \E m \in {"paper", "split"} : SetViewButton(m)
    \/ SetOrientationButton("vertical")
    \/ SliderChange(SplitMax)
    \/ ZoomIn
    \/ \E k \in {"d", "s", "h"} : handleKeyDown(k, TRUE)
    \/ \E m \in {"ok", "full"} : StorageAvailability(m)
    \/ Reload

SpecPersist == InitPersist /\ [][NextPersist]_vars

\* Startup: the page opened, and reloaded, on entries an earlier session or
\* another program left, while the host's storage works, is full or is denied.
StartupEntries ==
    {[EmptyStorage EXCEPT !["pcv.view"] = v, !["pcv.theme"] = t,
                          !["pcv.splitPct"] = sp, !["pcv.pdfZoom"] = z]
        : v \in {RawAbsent, RawGarbage, Stringify("app"), Stringify("banana")},
          t \in {RawAbsent, Stringify("blue")},
          sp \in {RawEmpty, Stringify(200)},
          z \in {RawAbsent, Stringify(500)}}

InitStartup == \E st \in StartupEntries, mode \in StorageModes : MountIn(st, mode)

NextStartup ==
    \/ Reload
    \/ \E m \in StorageModes : StorageAvailability(m)
    \/ \E k \in {"d", "h"} : handleKeyDown(k, TRUE)
    \/ SetViewButton("paper")

SpecStartup == InitStartup /\ [][NextStartup]_vars

\* Keys: every key with and without a modifier, the help and fullscreen
\* buttons, and the host answering fullscreen requests, leaving fullscreen and
\* dispatching its events.
InitKeys == Mount(EmptyStorage)

NextKeys ==
    \/ \E k \in KeyNames : handleKeyDown(k, TRUE)
    \/ \E k \in {"Escape", "F11", "d", "x"} : handleKeyDown(k, FALSE)
    \/ ShowShortcutsButton
    \/ FullscreenButton
    \/ \E g \in BOOLEAN : FsAnswer(g)
    \/ FsHostExit
    \/ handleFullscreenChange

SpecKeys == InitKeys /\ [][NextKeys]_vars

\* Split writes: the three paths that call setSplitPct, the manifest's split
\* ranging over whole numbers and halves.
InitSplitWrite == Mount(EmptyStorage)

NextSplitWrite ==
    \/ handleMouseDown
    \/ \E cx \in {RectLeft + 1, RectLeft + 5, RectLeft + ContainerW} :
            handleMouseMove(cx, RectTop)
    \/ handleMouseUp(FALSE)
    \/ \E v \in {SplitMin, 40, SplitMax} : SliderChange(v)
    \/ \E a \in LayoutArchives : onOpenBundle(a)
    \/ \E n \in {0, 15, 29, 31, 60, 121, 171, 200}, d \in {1, 2} : ManifestSplit(n, d)

SpecSplitWrite == InitSplitWrite /\ [][NextSplitWrite]_vars

\* Apply: bundles with and without layout fields opened over a layout the
\* user has changed.
InitApply == Mount(EmptyStorage)

NextApply ==
    \/ \E a \in {ArchiveGood, ArchiveBare, ArchiveWideSplit, ArchiveZeroSplit} :
            onOpenBundle(a)
    \/ SetViewButton("app")
    \/ SetOrientationButton("vertical")
    \/ SliderChange(40)
    \/ ZoomIn
    \/ \E k \in {"d", "s"} : handleKeyDown(k, TRUE)

SpecApply == InitApply /\ [][NextApply]_vars

\* Toggles: swap, theme and toolbar visibility flipped by shortcut and by
\* button, the page opened on the theme an earlier session or another program
\* left in localStorage.
ToggleStorages ==
    {[EmptyStorage EXCEPT !["pcv.theme"] = t]
        : t \in {RawAbsent, Stringify("dark"), Stringify("blue")}}

InitToggle == \E st \in ToggleStorages : Mount(st)

NextToggle ==
    \/ \E k \in {"d", "s", "h"} : handleKeyDown(k, TRUE)
    \/ SwapButton
    \/ ThemeButton
    \/ HideToolbarButton
    \/ ShowToolbarButton
    \/ \E m \in ViewModes : SetViewButton(m)
    \/ SetOrientationButton("vertical")
    \/ \E f \in {[name |-> "paper.pdf", bytes |-> Raw(1)]} : onPickPdf(f)

SpecToggle == InitToggle /\ [][NextToggle]_vars

\* Shape: bundles whose manifest carries layout and orientation values of any
\* spelling, the view and orientation buttons, the page reloaded.
InitShape == Mount(EmptyStorage)

NextShape ==
    \/ \E a \in {ArchiveGood, ArchiveBare, ArchiveOddLayout} : onOpenBundle(a)
    \/ \E m \in ViewModes : SetViewButton(m)
    \/ \E o \in Orientations : SetOrientationButton(o)
    \/ Reload

SpecShape == InitShape /\ [][NextShape]_vars

Init == InitLayout
Next == NextLayout \/ NextZoom \/ NextDrag \/ NextOpen \/ NextBundle \/ NextPersist
            \/ NextStartup \/ NextKeys \/ NextSplitWrite
            \/ NextApply \/ NextToggle \/ NextShape
Spec == Init /\ [][Next]_vars

(***************************************************************************)
(* Properties.                                                             *)
(***************************************************************************)

\* C1: in every reachable state, the initial state read from localStorage
\* included, splitPct is within [15, 85].
C1_SplitAlwaysInRange == splitPct \in SplitMin..SplitMax

\* An archive whose manifest names, as strings, a paper entry and an app entry
\* of which one is absent from the archive.
NamesAbsentEntry(buf) ==
    /\ IsZip(buf)
    /\ HasEntry(buf, "manifest.json")
    /\ IsJsonText(buf["manifest.json"])
    /\ ManifestOf(buf) # JNull
    /\ IsStr(Field(ManifestOf(buf), "paper"))
    /\ IsStr(Field(ManifestOf(buf), "app"))
    /\ \/ ~HasEntry(buf, Field(ManifestOf(buf), "paper").str)
       \/ ~HasEntry(buf, Field(ManifestOf(buf), "app").str)

\* C2: opening an archive whose manifest names a paper or an app entry absent
\* from the archive shows the MissingEntry notice and leaves the layout state
\* and the document handles as they were.
C2_MissingEntryLeavesState ==
    [][(evt'.op = "openBundle" /\ NamesAbsentEntry(evt'.arg))
        => /\ notice' # Null
           /\ notice'.kind = "MissingEntry"
           /\ UNCHANGED <<docs, layout>>]_vars

\* C3: opening an archive without a manifest.json entry shows the
\* MissingManifest notice, throws nothing, and leaves the layout state and the
\* document handles unchanged.
C3_MissingManifestLeavesState ==
    [][(evt'.op = "openBundle" /\ IsZip(evt'.arg)
            /\ ~HasEntry(evt'.arg, "manifest.json"))
        => /\ notice' = [kind |-> "MissingManifest"]
           /\ thrown' = Null
           /\ UNCHANGED <<docs, layout>>]_vars

\* C3's case: such an archive was opened over two loaded documents.
C3_Witness ==
    /\ evt.op = "openBundle"
    /\ evt.arg = ArchiveNoManifest
    /\ notice = [kind |-> "MissingManifest"]
    /\ pdfFile # Null
    /\ appFile # Null
    /\ splitPct = 60

\* C4: decoding the archive a save produced succeeds and gives back the layout,
\* the clamped split and the orientation it was saved from, and the paper bytes
\* and the app bytes unchanged, for all file names.
C4_RoundTrip ==
    download # Null =>
        LET a == download.archive
            f == download.from
            m == ManifestOf(a)
        IN /\ OpenStage(a) = "ok"
           /\ Field(m, "layout") = Str(f.view)
           /\ IsNum(Field(m, "split"))
           /\ ClampSplit(Field(m, "split").num) = ClampSplit(f.splitPct)
           /\ Field(m, "orientation") = Str(f.orientation)
           /\ a[ToKey(Field(m, "paper"))] = f.pdfBytes
           /\ a[ToKey(Field(m, "app"))] = f.appBytes

\* C5: reopening a saved bundle, whatever happened to the layout since, restores
\* the view, the split and the orientation it was saved from and loads both
\* documents with the bytes that were saved.
C5_ReopenRestores ==
    [][(download # Null /\ evt'.op = "openBundle" /\ evt'.arg = download.archive)
        => /\ view' = download.from.view
           /\ splitPct' = download.from.splitPct
           /\ orientation' = download.from.orientation
           /\ pdfFile' # Null
           /\ appFile' # Null
           /\ pdfFile'.bytes = download.from.pdfBytes
           /\ appFile'.bytes = download.from.appBytes]_vars

\* C6: the stored pdfZoom is within [25, 200] in every reachable state, whatever
\* localStorage held at startup.
C6_ZoomAlwaysInRange == pdfZoom \in ZoomMin..ZoomMax

\* C7: while the divider is being dragged the release listener is attached, and
\* a button release, over the divider or anywhere else, in any view mode and
\* orientation, ends the drag.
C7_ReleaseEndsDrag ==
    [][/\ isDragging' => listeners'
       /\ (isDragging /\ evt'.op = "mouseup") => ~isDragging']_vars

\* C7's case: a drag ended by a release away from the divider, after the view
\* left the split mode.
C7_Witness ==
    /\ evt.op = "mouseup"
    /\ evt.handled
    /\ ~evt.over
    /\ view = "paper"
    /\ ~isDragging

\* C8: a pointer move during a drag on a horizontal container stores the
\* integer nearest to the percentage 100 * xOffset / width clamped to [15, 85]
\* (15 at or below 15%, 85 at or above 85%), so a pointer that moves right never
\* lowers splitPct; a pointer move while idle leaves splitPct unchanged.
C8_DragWritesClampedPercent ==
    [][evt'.op = "mousemove" =>
        IF isDragging /\ ContainerShown /\ orientation = "horizontal"
        THEN LET rel == evt'.x - RectLeft
                 s   == splitPct'
             IN /\ s \in SplitMin..SplitMax
                /\ (100 * rel <= SplitMin * ContainerW) => s = SplitMin
                /\ (100 * rel >= SplitMax * ContainerW) => s = SplitMax
                /\ (SplitMin * ContainerW <= 100 * rel
                        /\ 100 * rel <= SplitMax * ContainerW)
                    => /\ 2 * (100 * rel - s * ContainerW) <= ContainerW
                       /\ 2 * (s * ContainerW - 100 * rel) <= ContainerW
                /\ (evt.op = "mousemove" /\ evt.x <= evt'.x)
                    => splitPct <= splitPct'
        ELSE ~isDragging => splitPct' = splitPct]_vars

\* C8's case: a move during a horizontal drag left splitPct strictly inside
\* the range, after an earlier move further left.
C8_Witness ==
    /\ evt.op = "mousemove"
    /\ isDragging
    /\ ContainerShown
    /\ orientation = "horizontal"
    /\ SplitMin < splitPct
    /\ splitPct < SplitMax
    /\ 100 * (evt.x - RectLeft) # splitPct * ContainerW

\* C9: a bundle open or save never lets an exception escape, and a failing open
\* ends in a notice.
C9_EveryFailureNoticed ==
    evt.op \in {"openBundle", "saveBundle"} =>
        /\ thrown = Null
        /\ (evt.op = "openBundle" /\ OpenStage(evt.arg) # "ok") => notice # Null

\* An archive whose manifest.json does not parse, or parses to something
\* without a string paper or a string app.
InvalidManifestArchive(buf) ==
    /\ IsZip(buf)
    /\ HasEntry(buf, "manifest.json")
    /\ \/ ~IsJsonText(buf["manifest.json"])
       \/ ManifestOf(buf) = JNull
       \/ ~IsStr(Field(ManifestOf(buf), "paper"))
       \/ ~IsStr(Field(ManifestOf(buf), "app"))

\* C10: opening an archive with an unparseable manifest, or one whose paper or
\* app field is missing or mistyped, shows the InvalidManifest notice and
\* changes no state.
C10_InvalidManifestRejected ==
    [][(evt'.op = "openBundle" /\ InvalidManifestArchive(evt'.arg))
        => /\ notice' = [kind |-> "InvalidManifest"]
           /\ thrown' = Null
           /\ UNCHANGED <<docs, layout>>]_vars

\* C11: a save attempted while no PDF File is held, or while no markup source
\* (File, inline text or URL) is held, shows the PreconditionFailure notice,
\* hands no archive to the browser and leaves the layout state and the document
\* handles unchanged; and a save that hands over an archive had a PDF File and
\* resolvable markup bytes.
C11_SaveNeedsBothDocuments ==
    [][evt'.op = "saveBundle" =>
        /\ (pdfFile = Null \/ (appFile = Null /\ appSrcDoc = Null /\ appUrl = Null))
            => /\ notice' = [kind |-> "PreconditionFailure"]
               /\ thrown' = Null
               /\ UNCHANGED <<download, nextUrl, liveUrls, docs, layout>>
        /\ nextUrl' # nextUrl
            => /\ pdfFile # Null
               /\ \/ appFile # Null
                  \/ appSrcDoc # Null
                  \/ (appUrl # Null /\ IsBlobUrl(appUrl)
                        /\ appUrl.blob \in DOMAIN liveUrls)]_vars

\* C11's case: after an earlier successful save the markup was cleared and a
\* save was refused with the PDF still loaded.
C11_Witness ==
    /\ evt.op = "saveBundle"
    /\ notice = [kind |-> "PreconditionFailure"]
    /\ pdfFile # Null
    /\ appFile = Null
    /\ appUrl = Null
    /\ download # Null

\* The markup is held only as a URL, and the URL cannot be read: it is no blob
\* URL, or a blob URL that is not live (one of an earlier page session).
UnresolvableMarkup ==
    /\ pdfFile # Null
    /\ appFile = Null
    /\ appSrcDoc = Null
    /\ appUrl # Null
    /\ ~(IsBlobUrl(appUrl) /\ appUrl.blob \in DOMAIN liveUrls)

\* C12: a save whose markup is held only as a URL that cannot be resolved to
\* bytes ends with the ContentCaptureFailure notice, lets no exception escape
\* and hands no archive to the browser.
C12_CaptureFailureNoticed ==
    [][(evt'.op = "saveBundle" /\ UnresolvableMarkup)
        => /\ notice' = [kind |-> "ContentCaptureFailure"]
           /\ thrown' = Null
           /\ UNCHANGED <<download, nextUrl>>]_vars

\* C13: every archive a save hands to the browser has exactly three entries:
\* manifest.json holding the manifest, the entry named by manifest.paper holding
\* the paper bytes and the entry named by manifest.app holding the app bytes,
\* whatever the names of the loaded files.
C13_ThreeEntries ==
    download # Null =>
        LET a == download.archive
            f == download.from
        IN /\ Cardinality(DOMAIN a) = 3
           /\ HasEntry(a, "manifest.json")
           /\ IsJsonText(a["manifest.json"])
           /\ Field(ManifestOf(a), "paper") = Str(f.pdfName)
           /\ Field(ManifestOf(a), "app") = Str(f.appName)
           /\ HasEntry(a, f.pdfName)
           /\ HasEntry(a, f.appName)
           /\ a[f.pdfName] = f.pdfBytes
           /\ a[f.appName] = f.appBytes

\* C14: localStorage never holds a reference to a loaded document, and the
\* state after a reload has no PDF handle and no markup handle.
C14_HandlesNotPersisted ==
    /\ storage["pcv.pdfUrl"] \in {RawAbsent, Stringify(Null)}
    /\ storage["pcv.appUrl"] \in {RawAbsent, Stringify(Null)}
    /\ evt.op = "reload" => (pdfUrl = Null /\ appUrl = Null)

\* C15: the object URLs created for documents and not revoked are exactly the
\* URLs pdfUrl and appUrl display, after any sequence of picks, bundle opens
\* and clears.
C15_LiveUrlsAreDisplayed ==
    DOMAIN liveUrls =
        {n \in 0..MaxUrls : pdfUrl = BlobUrl(n) \/ appUrl = BlobUrl(n)}

\* The JSON text of every hook's in-memory value, by key.
Encoded == StorageOf(pdfUrl, appUrl, view, orientation, splitPct, swap, theme,
                     pdfZoom, showToolbar)

LayoutKeys == Keys \ {"pcv.pdfUrl", "pcv.appUrl"}

\* C16: after a step that changes a layout field (view, orientation, splitPct,
\* swap, theme, pdfZoom, showToolbar), the localStorage entry of the field's key
\* holds the JSON text of the new value when the write succeeded; when the write
\* failed the entry is as it was, the new value stays in memory and no
\* exception escapes.
C16_ChangePersisted ==
    [][\A k \in LayoutKeys :
        Encoded'[k] # Encoded[k]
            => /\ thrown' = Null
               /\ storageMode = "ok" => storage'[k] = Encoded'[k]
               /\ storageMode # "ok" => storage'[k] = storage[k]]_vars

\* C16's case: the theme was changed and written, then the storage filled up
\* and a change of the view stayed in memory only.
C16_Witness ==
    /\ evt.op = "viewButton"
    /\ storageMode = "full"
    /\ view = "paper"
    /\ storage["pcv.view"] = Stringify("split")
    /\ theme = "dark"
    /\ storage["pcv.theme"] = Stringify("dark")
    /\ thrown = Null

\* The values a layout key may hold, and the value the hook is constructed with.
ValidValues(k) ==
    CASE k = "pcv.view"        -> ViewModes
      [] k = "pcv.orient"      -> Orientations
      [] k = "pcv.splitPct"    -> SplitMin..SplitMax
      [] k = "pcv.swap"        -> BOOLEAN
      [] k = "pcv.theme"       -> {"light", "dark"}
      [] k = "pcv.pdfZoom"     -> ZoomMin..ZoomMax
      [] k = "pcv.showToolbar" -> BOOLEAN

DefaultValue(k) ==
    CASE k = "pcv.view"        -> "split"
      [] k = "pcv.orient"      -> "horizontal"
      [] k = "pcv.splitPct"    -> 50
      [] k = "pcv.swap"        -> FALSE
      [] k = "pcv.theme"       -> "light"
      [] k = "pcv.pdfZoom"     -> ZoomDefault
      [] k = "pcv.showToolbar" -> TRUE

\* An entry that cannot be read, does not parse, or parses to a value outside
\* the key's valid set.
Corrupt(k, raw) ==
    \/ raw = RawUnreadable
    \/ raw = RawGarbage
    \/ ("json" \in DOMAIN raw /\ raw.json \notin ValidValues(k))

\* C17: in the state after the page is opened or reloaded, no exception has
\* escaped, and every layout field whose entry could not be read or was corrupt
\* has the default of its key.
C17_CorruptGivesDefault ==
    evt.op \in {"mount", "reload"} =>
        /\ thrown = Null
        /\ \A k \in LayoutKeys :
              Corrupt(k, evt.read[k]) => Encoded[k] = Stringify(DefaultValue(k))

\* The variables a keydown may touch besides its own bookkeeping.
keyState == <<docs, layout, isDragging, showKeyboardShortcuts, fs, urls, storage,
              listeners, download>>

\* C18: a key event runs at most one of the mapped actions (the three view
\* switches, theme, fullscreen, swap and toolbar toggles, dismissing the help
\* overlay); preventDefault is called exactly when one ran; what changes is the
\* target of that action alone; and an event that runs none changes no state.
C18_OneActionPerKey ==
    [][evt'.op = "keydown" =>
        /\ Cardinality(evt'.fired) <= 1
        /\ evt'.prevented <=> (evt'.fired # {})
        /\ evt'.fired = {} => UNCHANGED keyState
        /\ view' # view => evt'.fired \in {{"viewSplit"}, {"viewPaper"}, {"viewApp"}}
        /\ theme' # theme <=> evt'.fired = {"theme"}
        /\ swap' # swap <=> evt'.fired = {"swap"}
        /\ showToolbar' # showToolbar <=> evt'.fired = {"toolbar"}
        /\ fsQueue' # fsQueue <=> evt'.fired = {"fullscreen"}
        /\ showKeyboardShortcuts' # showKeyboardShortcuts
            => evt'.fired = {"dismissHelp"}
        /\ UNCHANGED <<docs, orientation, splitPct, pdfZoom, isDragging,
                       isFullscreen, fsElement, fsEvents>>]_vars

\* C18's case: with the help overlay open, the theme shortcut ran: the theme
\* changed, the default was suppressed and the overlay stayed.
C18_Witness ==
    /\ evt.op = "keydown"
    /\ evt.key = "d"
    /\ evt.fired = {"theme"}
    /\ evt.prevented
    /\ theme = "dark"
    /\ showKeyboardShortcuts

\* C19: whenever no fullscreen request is unanswered and no fullscreenchange
\* event is waiting, isFullscreen equals the host's fullscreen state, whatever
\* the order of requests, grants, refusals, host exits and events before; and a
\* refused request changes nothing but the request queue.
C19_FlagFollowsHost ==
    [][/\ (fsQueue' = <<>> /\ fsEvents' = 0) => isFullscreen' = fsElement'
       /\ (evt'.op = "fsAnswer" /\ ~evt'.arg)
            => UNCHANGED <<docs, layout, isDragging, showKeyboardShortcuts,
                           isFullscreen, fsElement, fsEvents, urls, storage,
                           listeners, download>>]_vars

\* C19's case: fullscreen was entered and its event dispatched, then a request
\* to leave was refused: nothing is pending and the flag still says fullscreen.
C19_Witness ==
    /\ evt.op = "fsAnswer"
    /\ ~evt.arg
    /\ fsQueue = <<>>
    /\ fsEvents = 0
    /\ fsElement
    /\ isFullscreen

\* clamp(round(n/d), 15, 85)
ClampOfRound(n, d) == Min(SplitMax, Max(SplitMin, RoundDiv(n, d)))

\* C20: on every path that writes the split percentage the value written is
\* clamp(round(p), 15, 85) of the path's input p: the pointer's percentage of
\* the container in a drag, the slider's value, the manifest's split on a
\* bundle open.
C20_WritesClampOfRound ==
    [][/\ (evt'.op = "mousemove" /\ isDragging /\ listeners /\ ContainerShown
            /\ orientation = "horizontal")
            => splitPct' = ClampOfRound(100 * (evt'.x - RectLeft), ContainerW)
       /\ evt'.op = "slider" => splitPct' = ClampOfRound(evt'.arg, 1)
       /\ (evt'.op = "openBundle" /\ OpenStage(evt'.arg) = "ok"
            /\ IsNum(Field(ManifestOf(evt'.arg), "split")))
            => splitPct' = ClampOfRound(Field(ManifestOf(evt'.arg), "split").num, 1)
       /\ evt'.op = "manifestSplit"
            => evt'.out = evt'.den * ClampOfRound(evt'.num, evt'.den)]_vars

\* C21: a bundle open that succeeds leaves view, splitPct and orientation as
\* they were when the manifest lacks layout, split and orientation; sets the
\* view and the orientation a manifest carries; stores a numeric split clamped
\* to [15, 85], a split outside the range included; and never changes swap,
\* theme, pdfZoom or showToolbar.
C21_ManifestLayoutApplied ==
    [][(evt'.op = "openBundle" /\ OpenStage(evt'.arg) = "ok") =>
        LET m == ManifestOf(evt'.arg) IN
        /\ "layout" \notin DOMAIN m => view' = view
        /\ "split" \notin DOMAIN m => splitPct' = splitPct
        /\ "orientation" \notin DOMAIN m => orientation' = orientation
        /\ ("layout" \in DOMAIN m /\ Field(m, "layout") \in {Str(v) : v \in ViewModes})
            => Str(view') = Field(m, "layout")
        /\ ("orientation" \in DOMAIN m
                /\ Field(m, "orientation") \in {Str(o) : o \in Orientations})
            => Str(orientation') = Field(m, "orientation")
        /\ ("split" \in DOMAIN m /\ IsNum(Field(m, "split")))
            => /\ splitPct' \in SplitMin..SplitMax
               /\ Field(m, "split").num <= SplitMin => splitPct' = SplitMin
               /\ Field(m, "split").num >= SplitMax => splitPct' = SplitMax
               /\ Field(m, "split").num \in SplitMin..SplitMax
                    => splitPct' = Field(m, "split").num
        /\ UNCHANGED <<swap, theme, pdfZoom, showToolbar>>]_vars

\* C21's case: a bundle carrying only a split of 200 was opened over a
\* changed layout: the split is 85 and everything else is as the user left it.
C21_Witness ==
    /\ evt.op = "openBundle"
    /\ evt.arg = ArchiveWideSplit
    /\ splitPct = SplitMax
    /\ view = "app"
    /\ orientation = "vertical"
    /\ theme = "dark"
    /\ swap
    /\ pdfZoom = ZoomDefault + ZoomStep

\* C22: in every reachable state pdfZoom is one of 25, 50, ..., 200, whatever
\* localStorage held at startup and whatever zoom-in, zoom-out and clear-PDF
\* operations followed.
C22_ZoomOnStep ==
    /\ pdfZoom \in ZoomMin..ZoomMax
    /\ pdfZoom % ZoomStep = 0

\* The last event was a theme, swap or toolbar toggle, by shortcut or button.
ThemeToggled ==
    evt.op = "themeButton" \/ (evt.op = "keydown" /\ evt.fired = {"theme"})
SwapToggled ==
    evt.op = "swapButton" \/ (evt.op = "keydown" /\ evt.fired = {"swap"})
ToolbarToggled ==
    \/ evt.op \in {"hideToolbarButton", "showToolbarButton"}
    \/ (evt.op = "keydown" /\ evt.fired = {"toolbar"})

\* C23: a theme, swap or toolbar toggle, by shortcut or by button, moves its
\* field from one of its two values to the other, so that the same toggle
\* applied again restores it, and leaves the other layout fields and the
\* document handles unchanged.
C23_TogglesArePureFlips ==
    [][/\ ThemeToggled' =>
            /\ theme \in {"light", "dark"}
            /\ theme' \in {"light", "dark"}
            /\ theme' # theme
            /\ ThemeFlip(theme') = theme
            /\ UNCHANGED <<docs, view, orientation, splitPct, swap, pdfZoom,
                           showToolbar>>
       /\ SwapToggled' =>
            /\ swap' = ~swap
            /\ UNCHANGED <<docs, view, orientation, splitPct, theme, pdfZoom,
                           showToolbar>>
       /\ ToolbarToggled' =>
            /\ showToolbar' = ~showToolbar
            /\ UNCHANGED <<docs, view, orientation, splitPct, swap, theme,
                           pdfZoom>>]_vars

\* C24: in every reachable state view is one of split, paper, app and
\* orientation is one of horizontal, vertical, so that one of the three work
\* areas is rendered.
C24_ViewAndOrientationValid ==
    /\ view \in ViewModes
    /\ orientation \in Orientations

====
